---- MODULE Spec2Model ----
(***************************************************************************)
(* A model of the CSN-A2 thermal printer driver (src/src/lib.rs).          *)
(*                                                                         *)
(* The state is the Printer struct plus a log of what the last public call *)
(* did to its two injected capabilities: `trace` is the sequence of        *)
(* serial.write(byte) and delay.delay_us(duration) calls, in order.        *)
(***************************************************************************)
EXTENDS Integers, Sequences, FiniteSets, TLC

VARIABLES
    prev_byte,        \* Printer.prev_byte (as its code point)
    max_column,       \* Printer.max_column: u8
    char_height,      \* Printer.char_height: u8
    char_width,       \* Printer.char_width: u8
    line_spacing,     \* Printer.line_spacing: u8
    barcode_height,   \* Printer.barcode_height: u8
    dot_print_time,   \* Printer.dot_print_time: u32
    dot_feed_time,    \* Printer.dot_feed_time: u32
    current_column,   \* Printer.current_column: u8
    print_mode,       \* Printer.print_mode: u8
    panicked,         \* the call unwound (arithmetic overflow or unwrap of Err)
    trace,            \* capability calls made by the last public call
    op,               \* name of the last public call
    arg,              \* its argument
    image             \* the decoded image the host application holds

vars == <<prev_byte, max_column, char_height, char_width, line_spacing,
          barcode_height, dot_print_time, dot_feed_time, current_column,
          print_mode, panicked, trace, op, arg, image>>

(***************************************************************************)
(* Protocol constants                                                      *)
(***************************************************************************)
ESC == 27
HT == 9
MARK == 33
AT == 64
GS == 29
LF == 10

INIT_SEQUENCE == <<ESC, AT>>
TAB_STOP_SEQUENCE == <<ESC, 68>>
MODE_SEQUENCE == <<ESC, MARK>>
MODE_ORDER == << <<GS, 66>>, <<ESC, 123>>, <<ESC, 69>> >>

TAB_WIDTH == 4
PIXEL_COLOR_CUTOFF == 65535
BAUDRATE == 19200
DOT_WIDTH == 384
\* mutant: the quotient without the rounding term
BYTE_TIME_MICROS_truncated == (11 * 1000000) \div BAUDRATE

BYTE_TIME_MICROS == ((11 * 1000000) + (BAUDRATE \div 2)) \div BAUDRATE

\* 2^8: the width of the u8 fields and casts
U8 == 256

(***************************************************************************)
(* Bit operations on naturals, as the u8 operators |, & and <<             *)
(***************************************************************************)
Shl(a, k) == a * (2 ^ k)

RECURSIVE BitOr(_, _)
BitOr(a, b) ==
    IF a = 0 THEN b
    ELSE IF b = 0 THEN a
    ELSE (IF (a % 2 = 1) \/ (b % 2 = 1) THEN 1 ELSE 0)
         + 2 * BitOr(a \div 2, b \div 2)

RECURSIVE BitAnd(_, _)
BitAnd(a, b) ==
    IF a = 0 \/ b = 0 THEN 0
    ELSE (IF (a % 2 = 1) /\ (b % 2 = 1) THEN 1 ELSE 0)
         + 2 * BitAnd(a \div 2, b \div 2)

B2N(b) == IF b THEN 1 ELSE 0

(***************************************************************************)
(* PrintMode and its encoding                                              *)
(***************************************************************************)
Font == {"FontA", "FontB"}

PrintMode ==
    [font : Font, inverse : BOOLEAN, upside_down : BOOLEAN, emph : BOOLEAN,
     double_height : BOOLEAN, double_width : BOOLEAN, delete_line : BOOLEAN]

PrintModeDefault ==
    [font |-> "FontA", inverse |-> FALSE, upside_down |-> FALSE,
     emph |-> FALSE, double_height |-> FALSE, double_width |-> FALSE,
     delete_line |-> FALSE]

\* mutant: the double-height and double-width bits exchanged
PrintModeIntoU8_swapped(m) ==
    B2N(m.font = "FontB") + 2 * B2N(m.inverse) + 4 * B2N(m.upside_down)
    + 8 * B2N(m.emph) + 32 * B2N(m.double_height) + 16 * B2N(m.double_width)
    + 64 * B2N(m.delete_line)

\* mutant: emph sets bit 4 and double-height bit 3
PrintModeIntoU8_emph_bit4(m) ==
    B2N(m.font = "FontB") + 2 * B2N(m.inverse) + 4 * B2N(m.upside_down)
    + 16 * B2N(m.emph) + 8 * B2N(m.double_height) + 32 * B2N(m.double_width)
    + 64 * B2N(m.delete_line)

\* impl Into<u8> for PrintMode
PrintModeIntoU8(m) ==
    LET m0 == IF m.font = "FontA" THEN BitAnd(0, Shl(1, 0))
                                  ELSE BitOr(0, Shl(1, 0))
        m1 == IF m.inverse THEN BitOr(m0, Shl(1, 1)) ELSE m0
        m2 == IF m.upside_down THEN BitOr(m1, Shl(1, 2)) ELSE m1
        m3 == IF m.emph THEN BitOr(m2, Shl(1, 3)) ELSE m2
        m4 == IF m.double_height THEN BitOr(m3, Shl(1, 4)) ELSE m3
        m5 == IF m.double_width THEN BitOr(m4, Shl(1, 5)) ELSE m4
        m6 == IF m.delete_line THEN BitOr(m5, Shl(1, 6)) ELSE m5
    IN  m6

(***************************************************************************)
(* The printer as a record, so that the methods compose as functions       *)
(***************************************************************************)
\* Besides the fields of Printer the record carries the transport's side of
\* a call: `accepts` is the number of bytes serial.write will still accept
\* before it returns Err (NeverFails: it accepts them all), `result` what
\* the last serial.write returned.
NeverFails == -1

St ==
    [prev_byte |-> prev_byte, max_column |-> max_column,
     char_height |-> char_height, char_width |-> char_width,
     line_spacing |-> line_spacing, barcode_height |-> barcode_height,
     dot_print_time |-> dot_print_time, dot_feed_time |-> dot_feed_time,
     current_column |-> current_column, print_mode |-> print_mode,
     panicked |-> panicked, trace |-> << >>,
     accepts |-> NeverFails, result |-> "Ok"]

\* mutant: a session created with calibrated per-dot times
New_calibrated ==
    [prev_byte |-> LF, max_column |-> 32, char_height |-> 24,
     char_width |-> 12, line_spacing |-> 6, barcode_height |-> 162,
     dot_print_time |-> 30, dot_feed_time |-> 21, current_column |-> 0,
     print_mode |-> 0, panicked |-> FALSE, trace |-> << >>,
     accepts |-> NeverFails, result |-> "Ok"]

\* Printer::new
New ==
    [prev_byte |-> LF, max_column |-> 32, char_height |-> 24,
     char_width |-> 12, line_spacing |-> 6, barcode_height |-> 162,
     dot_print_time |-> 0, dot_feed_time |-> 0, current_column |-> 0,
     print_mode |-> 0, panicked |-> FALSE, trace |-> << >>,
     accepts |-> NeverFails, result |-> "Ok"]

W(b) == <<"write", b>>
WErr(b) == <<"write_err", b>>
D(us) == <<"delay_us", us>>

\* serial.write(byte): the byte is handed to the transport, which returns
\* Ok or Err
serial_write(p, byte) ==
    IF p.accepts = 0
    THEN [p EXCEPT !.trace = Append(@, WErr(byte)), !.result = "Err"]
    ELSE [p EXCEPT !.trace = Append(@, W(byte)), !.result = "Ok",
                   !.accepts = IF @ > 0 THEN @ - 1 ELSE @]

\* Result::unwrap on what write_byte / write_one return: every caller
\* unwraps, so an Err of the transport unwinds the call
unwrap(p) == IF p.result = "Err" THEN [p EXCEPT !.panicked = TRUE] ELSE p

\* Printer::sleep: delay.delay_us(duration as u32). Every duration of this
\* model is far below 2^32, where the cast is the identity.
sleep(p, duration) ==
    IF p.panicked THEN p ELSE [p EXCEPT !.trace = Append(@, D(duration))]

\* mutant: the result of serial.write is dropped
write_byte_ignores_err(p, byte) ==
    IF p.panicked THEN p
    ELSE sleep(serial_write(p, byte), BYTE_TIME_MICROS)

\* mutant: the byte is sent without the wait
write_byte_no_sleep(p, byte) ==
    IF p.panicked THEN p
    ELSE unwrap(serial_write(p, byte))

\* Printer::write_byte, with the unwrap of its caller
write_byte(p, byte) ==
    IF p.panicked THEN p
    ELSE unwrap(sleep(serial_write(p, byte), BYTE_TIME_MICROS))

\* Printer::write_bytes
RECURSIVE write_bytes(_, _)
write_bytes(p, bytes) ==
    IF bytes = << >> THEN p
    ELSE write_bytes(write_byte(p, Head(bytes)), Tail(bytes))

(***************************************************************************)
(* Text path: write_one tracks the print head                              *)
(***************************************************************************)
\* mutant: only the line-break byte ends a line
is_line_break_explicit_only(p, byte) == byte = LF

\* the line-break test of write_one
is_line_break(p, byte) == byte = LF \/ p.current_column = p.max_column

\* mutant: every byte is charged the cost of completing a printed line
wait_duration_every_byte(p, byte) ==
    BYTE_TIME_MICROS + (p.char_height * p.dot_print_time)
    + (p.line_spacing * p.dot_feed_time)

\* mutant: a line break is charged as a printed line whatever came before
wait_duration_ignores_prev(p, byte) ==
    IF is_line_break(p, byte)
    THEN BYTE_TIME_MICROS + (p.char_height * p.dot_print_time)
         + (p.line_spacing * p.dot_feed_time)
    ELSE BYTE_TIME_MICROS

\* wait_duration of write_one, computed in u64 from the state before the byte
wait_duration(p, byte) ==
    IF is_line_break(p, byte)
    THEN IF p.prev_byte = LF
         THEN BYTE_TIME_MICROS
              + (p.char_height + p.line_spacing) * p.dot_feed_time
         ELSE BYTE_TIME_MICROS
              + (p.char_height * p.dot_print_time)
              + (p.line_spacing * p.dot_feed_time)
    ELSE BYTE_TIME_MICROS

\* next_column of write_one: the tab's own skip
next_column(p) == (p.current_column \div TAB_WIDTH) + 1

\* `self.current_column += n` on a u8: a build with overflow checks panics,
\* a build without them wraps modulo 256
add_column(p, n) ==
    IF p.panicked THEN {p}
    ELSE IF p.current_column + n < U8
         THEN {[p EXCEPT !.current_column = @ + n]}
         ELSE {[p EXCEPT !.panicked = TRUE],
               [p EXCEPT !.current_column = (@ + n) % U8]}

\* Printer::write_one, with the unwrap of its caller; the set of outcomes
\* (one, unless a u8 addition overflows)
write_one(p, byte) ==
    IF p.panicked THEN {p}
    ELSE LET p1 == serial_write(p, byte)
             wait == wait_duration(p, byte)
         IN  IF is_line_break(p, byte)
             THEN {unwrap(sleep([p1 EXCEPT !.current_column = 0,
                                           !.prev_byte = LF], wait))}
             ELSE LET tabbed == IF byte = HT
                                THEN add_column(p1, next_column(p))
                                ELSE {p1}
                      moved == UNION {add_column(q, 1) : q \in tabbed}
                  IN  {IF q.panicked THEN q
                       ELSE unwrap(sleep([q EXCEPT !.prev_byte = byte], wait))
                       : q \in moved}

\* Printer::write: write_one for every byte, in order
RECURSIVE write(_, _)
write(P, bytes) ==
    IF bytes = << >> THEN P
    ELSE write(UNION {write_one(p, Head(bytes)) : p \in P}, Tail(bytes))

(***************************************************************************)
(* Control commands                                                        *)
(***************************************************************************)
\* the loop of update_tabs: write_byte(i * TAB_WIDTH) for i in lo..(hi-1)
RECURSIVE tab_stops(_, _, _)
tab_stops(p, lo, hi) ==
    IF lo >= hi THEN p
    ELSE tab_stops(write_byte(p, (lo * TAB_WIDTH) % U8), lo + 1, hi)

\* Printer::update_tabs
update_tabs(p) ==
    write_byte(
        tab_stops(write_bytes(p, TAB_STOP_SEQUENCE), 1,
                  p.max_column \div TAB_WIDTH),
        0)

\* impl Default for PrintSettings, through Into<[u8; 3]>
PrintSettingsDefault == <<11, 120, 20>>

\* Printer::set_print_settings
set_print_settings(p, settings_bytes) ==
    write_bytes(write_bytes(p, <<ESC, 55>>), settings_bytes)

\* Printer::set_character_set
set_character_set(p, character_set) == write_bytes(p, <<ESC, 82, character_set>>)

\* Printer::set_code_table
set_code_table(p, code_table) == write_bytes(p, <<ESC, 116, code_table>>)

\* Printer::set_barcode_height
set_barcode_height(p, height) == write_bytes(p, <<GS, 104, height>>)

\* mutant: reset also puts the session's cursor back to that of Printer::new
reset_to_defaults(p) ==
    LET p0 == [p EXCEPT !.current_column = 0, !.prev_byte = LF,
                        !.max_column = 32, !.char_width = 12,
                        !.char_height = 24]
        p1 == write_bytes(p0, INIT_SEQUENCE)
        p2 == update_tabs(p1)
        p3 == set_print_settings(p2, PrintSettingsDefault)
        p4 == set_character_set(p3, 0)
        p5 == set_code_table(p4, 0)
    IN  set_barcode_height(p5, p5.barcode_height)

\* mutant: the heat settings are sent before the tab stops
reset_settings_first(p) ==
    LET p1 == write_bytes(p, INIT_SEQUENCE)
        p2 == set_print_settings(p1, PrintSettingsDefault)
        p3 == update_tabs(p2)
        p4 == set_character_set(p3, 0)
        p5 == set_code_table(p4, 0)
    IN  set_barcode_height(p5, p5.barcode_height)

\* Printer::reset
reset(p) ==
    LET p1 == write_bytes(p, INIT_SEQUENCE)
        p2 == update_tabs(p1)
        p3 == set_print_settings(p2, PrintSettingsDefault)
        p4 == set_character_set(p3, 0)
        p5 == set_code_table(p4, 0)
    IN  set_barcode_height(p5, p5.barcode_height)

\* mutant: max_column computed before the width is doubled
adjust_char_values_stale(p, m) ==
    LET h0 == IF m.font = "FontA" THEN 24 ELSE 17
        w0 == IF m.font = "FontA" THEN 12 ELSE 9
        w1 == IF m.double_width THEN (w0 * 2) % U8 ELSE w0
        h1 == IF m.double_height THEN (h0 * 2) % U8 ELSE h0
    IN  [p EXCEPT !.char_height = h1, !.char_width = w1,
                  !.max_column = (DOT_WIDTH \div w0) % U8]

\* Printer::adjust_char_values
adjust_char_values(p, m) ==
    LET h0 == IF m.font = "FontA" THEN 24 ELSE 17
        w0 == IF m.font = "FontA" THEN 12 ELSE 9
        w1 == IF m.double_width THEN (w0 * 2) % U8 ELSE w0
        h1 == IF m.double_height THEN (h0 * 2) % U8 ELSE h0
    IN  [p EXCEPT !.char_height = h1, !.char_width = w1,
                  !.max_column = (DOT_WIDTH \div w1) % U8]

\* the zip(MODE_ORDER, modes) loop of set_print_mode
RECURSIVE mode_commands(_, _, _)
mode_commands(p, cmds, modes) ==
    IF cmds = << >> \/ modes = << >> THEN p
    ELSE mode_commands(
             write_byte(write_bytes(p, Head(cmds)), Head(modes)),
             Tail(cmds), Tail(modes))

\* Printer::set_print_mode
set_print_mode(p, m) ==
    LET mode_byte == PrintModeIntoU8(m)
        p1 == [p EXCEPT !.print_mode = mode_byte]
        p2 == write_byte(write_bytes(p1, MODE_SEQUENCE), mode_byte)
        modes == <<B2N(m.inverse), B2N(m.upside_down), B2N(m.emph)>>
        p3 == mode_commands(p2, MODE_ORDER, modes)
    IN  IF p3.panicked THEN p3 ELSE adjust_char_values(p3, m)

\* mutant: the feed leaves the cursor where the text left it
feed_n_keeps_cursor(p, lines) ==
    LET p1 == write_bytes(p, <<ESC, 74, lines>>)
    IN  sleep(p1, p1.dot_feed_time * p1.char_height)

\* Printer::feed_n
feed_n(p, lines) ==
    LET p1 == write_bytes(p, <<ESC, 74, lines>>)
        p2 == sleep(p1, p1.dot_feed_time * p1.char_height)
    IN  IF p2.panicked THEN p2
        ELSE [p2 EXCEPT !.prev_byte = LF, !.current_column = 0]


(***************************************************************************)
(* Bitmaps                                                                 *)
(***************************************************************************)
\* bitvec![u8, Msb0;]: the value of the byte holding bits[from .. from+7],
\* first bit most significant; bits past the end of the vector are 0
RECURSIVE msb0_byte(_, _, _)
msb0_byte(bits, from, k) ==
    IF k = 8 THEN 0
    ELSE (IF from + k <= Len(bits) /\ bits[from + k] THEN 2 ^ (7 - k) ELSE 0)
         + msb0_byte(bits, from, k + 1)

\* BitVec::as_raw_slice
as_raw_slice(bits) ==
    [j \in 1..((Len(bits) + 7) \div 8) |-> msb0_byte(bits, 8 * (j - 1) + 1, 0)]

\* x_bytes of print_bitmap
x_bytes_of(x_bits) == ((x_bits \div 8) % U8) + B2N(x_bits % 8 # 0)

\* mutant: as many fill bits as the last byte has pixels
fill_bits_short(x_bits) == [k \in 1..(x_bits % 8) |-> FALSE]

\* the zero bits pushed after the last column of a row
fill_bits(x_bits) == [k \in 1..(8 - (x_bits % 8)) |-> FALSE]

\* the pixel loop of print_bitmap: image_bits after pixels[i..]; pixels come
\* row by row, the i-th (from 1) with position.x = (i - 1) mod width
RECURSIVE image_bits(_, _, _)
image_bits(bmp, i, acc) ==
    IF i > Len(bmp.pixels) THEN acc
    ELSE LET x_bits == bmp.width
             column == (i - 1) % x_bits
             pushed == Append(acc, bmp.pixels[i] < PIXEL_COLOR_CUTOFF)
             filled == IF column = x_bits - 1 /\ x_bits % 8 > 0
                       THEN pushed \o fill_bits(x_bits)
                       ELSE pushed
         IN  image_bits(bmp, i + 1, filled)

\* the condition under which the byte loop of print_bitmap sleeps after the
\* byte of index i (from 0)
row_delay_after(i, x_bytes) == (i % U8) % x_bytes = 0

\* mutant: the data bytes go through write_one, as text does
RECURSIVE bitmap_bytes_tracked(_, _, _, _)
bitmap_bytes_tracked(p, bytes, i, x_bytes) ==
    IF i >= Len(bytes) THEN p
    ELSE LET p1 == CHOOSE q \in write_one(p, bytes[i + 1]) : TRUE
             p2 == IF row_delay_after(i, x_bytes)
                   THEN sleep(p1, p1.dot_print_time + p1.dot_feed_time)
                   ELSE p1
         IN  bitmap_bytes_tracked(p2, bytes, i + 1, x_bytes)

\* the byte loop of print_bitmap over bytes[i+1..] (i counts from 0)
RECURSIVE bitmap_bytes(_, _, _, _)
bitmap_bytes(p, bytes, i, x_bytes) ==
    IF i >= Len(bytes) THEN p
    ELSE LET p1 == write_byte(p, bytes[i + 1])
             p2 == IF row_delay_after(i, x_bytes)
                   THEN sleep(p1, p1.dot_print_time + p1.dot_feed_time)
                   ELSE p1
         IN  bitmap_bytes(p2, bytes, i + 1, x_bytes)

\* Printer::print_bitmap
print_bitmap(p, bmp, mode) ==
    LET x_bits == bmp.width
        x_bytes == x_bytes_of(x_bits)
        y_bits == bmp.height
        p1 == write_bytes(p, <<GS, 118, 0, mode, x_bytes, 0, y_bits % U8, 0>>)
    IN  bitmap_bytes(p1, as_raw_slice(image_bits(bmp, 1, << >>)), 0, x_bytes)

(***************************************************************************)
(* Barcodes                                                                *)
(***************************************************************************)
\* the UTF-8 length of a char
len_utf8(c) == IF c < 128 THEN 1 ELSE IF c < 2048 THEN 2
               ELSE IF c < 65536 THEN 3 ELSE 4

\* str::len: the length of a text in bytes
RECURSIVE str_len(_)
str_len(text) ==
    IF text = << >> THEN 0 ELSE len_utf8(Head(text)) + str_len(Tail(text))

\* the text.chars() loop of print_barcode
RECURSIVE barcode_chars(_, _)
barcode_chars(p, text) ==
    IF text = << >> THEN p
    ELSE barcode_chars(write_byte(p, Head(text) % U8), Tail(text))

\* Printer::print_barcode
print_barcode(p, system, text) ==
    LET p1 == write_bytes(p, <<GS, 107, system, str_len(text) % U8>>)
        p2 == barcode_chars(p1, text)
    IN  sleep(p2, p2.barcode_height * (p2.dot_print_time + p2.dot_feed_time))


(***************************************************************************)
(* Bounds and input sets                                                   *)
(***************************************************************************)
MaxStrLen == 2       \* longest string given to write_str
MaxFeed == 1         \* largest line count given to feed_n
MaxWidth == 10       \* widest image
MaxHeight == 2       \* tallest image
PatLen == 2          \* period of the pixel patterns
MaxBarcodeLen == 1   \* longest barcode text
MaxDotTime == 2      \* largest per-dot time of the calibrated sessions
MaxAccepted == 3     \* most bytes a failing transport accepts in a call

\* a line break, a tab and a printable character
TextBytes == {LF, HT, 65}

Strings == UNION {[1..n -> TextBytes] : n \in 0..MaxStrLen}

\* strings of line breaks and printable characters
PlainStrings == UNION {[1..n -> {LF, 65}] : n \in 0..MaxStrLen}

\* the modes that differ in what adjust_char_values reads
CursorModes ==
    {m \in PrintMode :
        ~m.inverse /\ ~m.upside_down /\ ~m.emph /\ ~m.delete_line}

\* raw colours around the cutoff
Colours == {0, PIXEL_COLOR_CUTOFF - 1, PIXEL_COLOR_CUTOFF, 16777215}

\* a decoded image: width x height pixels in row order, coloured by
\* repeating a pattern
Image(w, h, pat) ==
    [width |-> w, height |-> h,
     pixels |-> [i \in 1..(w * h) |-> pat[((i - 1) % Len(pat)) + 1]]]

Images ==
    {Image(w, h, pat) :
        w \in 1..MaxWidth, h \in 1..MaxHeight, pat \in [1..PatLen -> Colours]}

\* the image of the general session: 10x1, all black
BlackImage == Image(10, 1, <<0>>)

RasterBitImageMode == 0..3

\* '0' and a character outside ASCII
BarcodeChars == {48, 233}

BarcodeTexts == UNION {[1..n -> BarcodeChars] : n \in 0..MaxBarcodeLen}

\* BarCodeSystem::UpcA and BarCodeSystem::Code128
FewBarCodeSystems == {65, 73}

(***************************************************************************)
(* The session: one action per public call                                 *)
(***************************************************************************)
Install(q, name, a) ==
    /\ prev_byte' = q.prev_byte
    /\ max_column' = q.max_column
    /\ char_height' = q.char_height
    /\ char_width' = q.char_width
    /\ line_spacing' = q.line_spacing
    /\ barcode_height' = q.barcode_height
    /\ dot_print_time' = q.dot_print_time
    /\ dot_feed_time' = q.dot_feed_time
    /\ current_column' = q.current_column
    /\ print_mode' = q.print_mode
    /\ panicked' = q.panicked
    /\ trace' = q.trace
    /\ op' = name
    /\ arg' = a
    /\ image' = image

\* the state after Printer::new, before any call
Init ==
    /\ prev_byte = New.prev_byte
    /\ max_column = New.max_column
    /\ char_height = New.char_height
    /\ char_width = New.char_width
    /\ line_spacing = New.line_spacing
    /\ barcode_height = New.barcode_height
    /\ dot_print_time = New.dot_print_time
    /\ dot_feed_time = New.dot_feed_time
    /\ current_column = New.current_column
    /\ print_mode = New.print_mode
    /\ panicked = New.panicked
    /\ trace = New.trace
    /\ op = "new"
    /\ arg = 0
    /\ image = BlackImage

\* Write::write_char(c): write_one(c as u8)
WriteChar(c) ==
    /\ ~panicked
    /\ \E q \in write_one(St, c % U8) : Install(q, "write_char", c)

\* Write::write_str(s): write(s.as_bytes())
WriteStr(s) ==
    /\ ~panicked
    /\ \E q \in write({St}, s) : Install(q, "write_str", s)

SetPrintMode(m) ==
    /\ ~panicked
    /\ Install(set_print_mode(St, m), "set_print_mode", m)

FeedN(lines) ==
    /\ ~panicked
    /\ Install(feed_n(St, lines), "feed_n", lines)

Reset ==
    /\ ~panicked
    /\ Install(reset(St), "reset", 0)

SetBarcodeHeight(height) ==
    /\ ~panicked
    /\ Install(set_barcode_height(St, height), "set_barcode_height", height)

PrintBitmap(mode) ==
    /\ ~panicked
    /\ Install(print_bitmap(St, image, mode), "print_bitmap", mode)

PrintBarcode(system, text) ==
    /\ ~panicked
    /\ Install(print_barcode(St, system, text), "print_barcode",
               [system |-> system, text |-> text])

\* the general session: every call, on small inputs
TextStep == \E c \in TextBytes : WriteChar(c)
StrStep == \E s \in Strings : WriteStr(s)
ModeStep == \E m \in CursorModes : SetPrintMode(m)
FeedStep == \E n \in 0..MaxFeed : FeedN(n)
HeightStep == \E h \in {50, 162} : SetBarcodeHeight(h)
BitmapStep == \E mode \in {0, 3} : PrintBitmap(mode)
BarcodeStep ==
    \E system \in FewBarCodeSystems, text \in BarcodeTexts :
        PrintBarcode(system, text)

Next ==
    \/ TextStep
    \/ ModeStep
    \/ FeedStep
    \/ Reset
    \/ HeightStep
    \/ BitmapStep
    \/ BarcodeStep

Spec == Init /\ [][Next]_vars

\* a session of mode changes, over every print mode
AnyModeStep == \E m \in PrintMode : SetPrintMode(m)

NextMode ==
    \/ AnyModeStep
    \/ FeedStep
    \/ Reset

SpecMode == Init /\ [][NextMode]_vars

\* sessions printing an image, over every image and raster mode
InitBitmap ==
    /\ prev_byte = New.prev_byte
    /\ max_column = New.max_column
    /\ char_height = New.char_height
    /\ char_width = New.char_width
    /\ line_spacing = New.line_spacing
    /\ barcode_height = New.barcode_height
    /\ dot_print_time = New.dot_print_time
    /\ dot_feed_time = New.dot_feed_time
    /\ current_column = New.current_column
    /\ print_mode = New.print_mode
    /\ panicked = New.panicked
    /\ trace = New.trace
    /\ op = "new"
    /\ arg = 0
    /\ image \in Images

AnyBitmapStep == \E mode \in RasterBitImageMode : PrintBitmap(mode)

NextBitmap ==
    \/ AnyBitmapStep
    \/ ModeStep

SpecBitmap == InitBitmap /\ [][NextBitmap]_vars

\* the text path as a function of the two per-dot times: the fields are
\* private and Printer::new zeroes them, so a session only ever has 0 and 0;
\* here they range over 0..MaxDotTime to tell the timing terms apart
InitTimed ==
    /\ prev_byte = New.prev_byte
    /\ max_column = New.max_column
    /\ char_height = New.char_height
    /\ char_width = New.char_width
    /\ line_spacing = New.line_spacing
    /\ barcode_height = New.barcode_height
    /\ dot_print_time \in 0..MaxDotTime
    /\ dot_feed_time \in 0..MaxDotTime
    /\ current_column = New.current_column
    /\ print_mode = New.print_mode
    /\ panicked = New.panicked
    /\ trace = New.trace
    /\ op = "new"
    /\ arg = 0
    /\ image = BlackImage

NextTimed ==
    \/ TextStep
    \/ ModeStep
    \/ FeedStep

SpecTimed == InitTimed /\ [][NextTimed]_vars

\* sessions over a transport that returns Err: in each call it accepts k
\* bytes and fails the next; a call that hands it no more than k bytes
\* completes
OnTransport(k) == [St EXCEPT !.accepts = k]

WriteCharOn(c, k) ==
    /\ ~panicked
    /\ \E q \in write_one(OnTransport(k), c % U8) :
            Install(q, "write_char", c)

WriteStrOn(s, k) ==
    /\ ~panicked
    /\ \E q \in write({OnTransport(k)}, s) : Install(q, "write_str", s)

SetPrintModeOn(m, k) ==
    /\ ~panicked
    /\ Install(set_print_mode(OnTransport(k), m), "set_print_mode", m)

FeedNOn(lines, k) ==
    /\ ~panicked
    /\ Install(feed_n(OnTransport(k), lines), "feed_n", lines)

ResetOn(k) ==
    /\ ~panicked
    /\ Install(reset(OnTransport(k)), "reset", 0)

PrintBitmapOn(mode, k) ==
    /\ ~panicked
    /\ Install(print_bitmap(OnTransport(k), image, mode), "print_bitmap", mode)

PrintBarcodeOn(system, text, k) ==
    /\ ~panicked
    /\ Install(print_barcode(OnTransport(k), system, text), "print_barcode",
               [system |-> system, text |-> text])

Accepted == 0..MaxAccepted

FailTextStep == \E c \in {LF, 65}, k \in Accepted : WriteCharOn(c, k)
FailStrStep == \E s \in PlainStrings, k \in Accepted : WriteStrOn(s, k)
FailModeStep == \E m \in CursorModes, k \in Accepted : SetPrintModeOn(m, k)
FailFeedStep == \E n \in 0..MaxFeed, k \in Accepted : FeedNOn(n, k)
FailResetStep == \E k \in Accepted : ResetOn(k)
FailBitmapStep == \E k \in Accepted : PrintBitmapOn(0, k)
FailBarcodeStep ==
    \E text \in BarcodeTexts, k \in Accepted : PrintBarcodeOn(65, text, k)

NextFail ==
    \/ FailTextStep
    \/ FailStrStep
    \/ FailModeStep
    \/ FailFeedStep
    \/ FailResetStep
    \/ FailBitmapStep
    \/ FailBarcodeStep

SpecFail == Init /\ [][NextFail]_vars


(***************************************************************************)
(* Reading the log of a call                                               *)
(***************************************************************************)
IsWrite(e) == e[1] = "write"
IsDelay(e) == e[1] = "delay_us"

\* the bytes handed to the transport, in order
RECURSIVE Written(_)
Written(tr) ==
    IF tr = << >> THEN << >>
    ELSE IF IsWrite(Head(tr)) THEN <<Head(tr)[2]>> \o Written(Tail(tr))
    ELSE Written(Tail(tr))

\* ceiling of a / b
CeilDiv(a, b) == (a + b - 1) \div b

(***************************************************************************)
(* C1: current_column never exceeds max_column, whatever public calls were *)
(* made. The code wraps only when the two are equal, so a tab that jumps   *)
(* past max_column, or a mode change that lowers max_column below the      *)
(* column, leaves the column above it.                                     *)
(***************************************************************************)
C1_ColumnWithinMax == current_column <= max_column

(***************************************************************************)
(* C2: a tab written at column c moves the column by c \div 4 + 2, and at  *)
(* every c >= max_column it is a forced wrap instead: column 0, previous   *)
(* byte marked as a line break.                                            *)
(***************************************************************************)
C2_TabAdvancesOrWraps ==
    [][(op' = "write_char" /\ arg' = HT /\ ~panicked')
        => IF current_column >= max_column
           THEN current_column' = 0 /\ prev_byte' = LF
           ELSE current_column' =
                    current_column + (current_column \div 4) + 2]_vars

(***************************************************************************)
(* C3: a printable byte (no tab, no line break) written at a column below  *)
(* max_column - 1 waits the per-byte time only, moves the column by one    *)
(* and clears the previous-byte-was-a-line-break mark.                     *)
(***************************************************************************)
C3_PrintableByteCostsBaseTime ==
    [][(op' = "write_char" /\ arg' \notin {HT, LF}
            /\ current_column < max_column - 1)
        => /\ trace' = <<W(arg'), D(BYTE_TIME_MICROS)>>
           /\ current_column' = current_column + 1
           /\ prev_byte' # LF
           /\ ~panicked']_vars

C3_Witness ==
    /\ op = "write_char" /\ arg = 65 /\ prev_byte = 65
    /\ current_column \in 2..(max_column - 1)
    /\ dot_print_time > 0 /\ dot_feed_time > 0
    /\ char_width = 18

(***************************************************************************)
(* C4: the wait of a line-break byte is the per-byte time plus             *)
(* char_height*dot_print_time + line_spacing*dot_feed_time when the        *)
(* previous byte is not marked as a line break, and plus                   *)
(* (char_height + line_spacing)*dot_feed_time when it is (as it is in a    *)
(* new session); either way the column becomes 0 and the previous byte is  *)
(* marked as a line break.                                                 *)
(***************************************************************************)
C4_LineBreakWait ==
    [][/\ op = "new" => prev_byte = LF
       /\ (op' = "write_char" /\ arg' = LF)
            => /\ trace' =
                    <<W(LF),
                      D(BYTE_TIME_MICROS
                        + (IF prev_byte = LF
                           THEN (char_height + line_spacing) * dot_feed_time
                           ELSE char_height * dot_print_time
                                + line_spacing * dot_feed_time))>>
               /\ current_column' = 0
               /\ prev_byte' = LF
               /\ ~panicked']_vars

C4_Witness ==
    /\ op = "write_char" /\ arg = LF
    /\ dot_print_time > dot_feed_time /\ dot_feed_time > 0
    /\ trace = <<W(LF), D(BYTE_TIME_MICROS + char_height * dot_print_time
                           + line_spacing * dot_feed_time)>>
    /\ current_column = 0 /\ prev_byte = LF

(***************************************************************************)
(* C5: on the 19,200 baud link every byte is followed by a wait of 573     *)
(* microseconds, the rounded-down quotient (11*1,000,000 + baud/2) / baud. *)
(* As claimed (573 being the ceiling of that quotient) it fails: the       *)
(* ceiling is 574.                                                         *)
(***************************************************************************)
C5_ByteTimeIsFloor573 ==
    \A i \in 2..Len(trace) :
        (IsDelay(trace[i]) /\ IsWrite(trace[i - 1]))
            => /\ trace[i][2] = 573
               /\ trace[i][2] = (11 * 1000000 + BAUDRATE \div 2) \div BAUDRATE

C5_ByteTimeIsCeiling573 ==
    \A i \in 2..Len(trace) :
        (IsDelay(trace[i]) /\ IsWrite(trace[i - 1]))
            => /\ trace[i][2] = 573
               /\ trace[i][2] = CeilDiv(11 * 1000000 + BAUDRATE \div 2, BAUDRATE)

C5_Witness ==
    /\ op = "feed_n"
    /\ trace = <<W(ESC), D(573), W(74), D(573), W(1), D(573), D(0)>>


(***************************************************************************)
(* C6: in a new session and after every set_print_mode(m) the three        *)
(* metrics follow from m: char_width is 12 (font A) or 9 (font B), doubled *)
(* by double_width; char_height is 24 or 17, doubled by double_height;     *)
(* max_column is 384 \div char_width (32, 16 and 42 for font A, font A     *)
(* double-width and font B). No other call changes any of the three.       *)
(***************************************************************************)
MetricsOf(m) ==
    LET w == (IF m.font = "FontA" THEN 12 ELSE 9)
             * (IF m.double_width THEN 2 ELSE 1)
        h == (IF m.font = "FontA" THEN 24 ELSE 17)
             * (IF m.double_height THEN 2 ELSE 1)
    IN  [char_width |-> w, char_height |-> h, max_column |-> 384 \div w]

Metrics ==
    [char_width |-> char_width, char_height |-> char_height,
     max_column |-> max_column]

C6_MetricsFollowMode ==
    /\ [](/\ op = "new" => Metrics = MetricsOf(PrintModeDefault)
          /\ op = "set_print_mode" =>
                /\ Metrics = MetricsOf(arg)
                /\ (arg.font = "FontA" /\ ~arg.double_width) => max_column = 32
                /\ (arg.font = "FontA" /\ arg.double_width) => max_column = 16
                /\ (arg.font = "FontB" /\ ~arg.double_width) => max_column = 42)
    /\ [][op' # "set_print_mode" => Metrics' = Metrics]_vars

C6_Witness ==
    /\ op = "write_char"
    /\ print_mode = 49
    /\ Metrics = [char_width |-> 18, char_height |-> 34, max_column |-> 21]

(***************************************************************************)
(* C7: set_print_mode(m) hands the transport exactly the twelve bytes      *)
(* ESC 0x21 modeByte, GS 0x42 inverse, ESC 0x7B upside_down, ESC 0x45 emph *)
(* in this order; modeByte has bit 0 = font B and bits 1..6 = inverse,     *)
(* upside-down, emphasized, double-height, double-width, delete-line, bit  *)
(* 7 clear; the three flag bytes are 0 or 1.                               *)
(***************************************************************************)
ModeByteOf(m) ==
    B2N(m.font = "FontB") + 2 * B2N(m.inverse) + 4 * B2N(m.upside_down)
    + 8 * B2N(m.emph) + 16 * B2N(m.double_height) + 32 * B2N(m.double_width)
    + 64 * B2N(m.delete_line)

C7_PrintModeFrame ==
    op = "set_print_mode" =>
        /\ Written(trace) =
              <<27, 33, ModeByteOf(arg),
                29, 66, B2N(arg.inverse),
                27, 123, B2N(arg.upside_down),
                27, 69, B2N(arg.emph)>>
        /\ ModeByteOf(arg) < 128
        /\ print_mode = ModeByteOf(arg)

C7_Witness ==
    /\ op = "set_print_mode"
    /\ arg.font = "FontB" /\ arg.upside_down /\ arg.double_width
    /\ arg.delete_line /\ ~arg.inverse
    /\ Len(Written(trace)) = 12

(***************************************************************************)
(* C8: for the mode {font A, inverse, emph} the print-mode byte is         *)
(* 0b0000_1010 (bits 1 and 3), and the three per-flag commands follow in   *)
(* the order inverse, upside-down, emph with flag bytes 1, 0, 1. As        *)
(* claimed, with the byte 0b0001_0010 (bits 1 and 4), it fails.            *)
(***************************************************************************)
InverseEmph == [PrintModeDefault EXCEPT !.inverse = TRUE, !.emph = TRUE]

FlagCommandsOfInverseEmph(bytes) ==
    /\ Len(bytes) = 12
    /\ SubSeq(bytes, 4, 12) = <<29, 66, 1, 27, 123, 0, 27, 69, 1>>

C8_InverseEmphByte ==
    (op = "set_print_mode" /\ arg = InverseEmph) =>
        /\ Written(trace)[3] = 10
        /\ FlagCommandsOfInverseEmph(Written(trace))

C8_InverseEmphByteAsClaimed ==
    (op = "set_print_mode" /\ arg = InverseEmph) =>
        /\ Written(trace)[3] = 18
        /\ FlagCommandsOfInverseEmph(Written(trace))

C8_Witness ==
    /\ op = "set_print_mode" /\ arg = InverseEmph
    /\ print_mode = 10
    /\ Len(trace) = 24

(***************************************************************************)
(* C9: print_bitmap sleeps dot_print_time + dot_feed_time after the last   *)
(* byte of every row and nowhere else: after the data byte of index i      *)
(* exactly when (i + 1) mod bytesPerRow = 0. The code sleeps after the     *)
(* bytes with i mod bytesPerRow = 0, the first of every row.               *)
(***************************************************************************)
BytesPerRow == (image.width + 7) \div 8

\* the log of the data bytes: what follows the eight header bytes
DataLog == SubSeq(trace, 17, Len(trace))

\* index (from 0) of the data byte written by DataLog[k]
DataIndex(k) == Cardinality({j \in 1..k : IsWrite(DataLog[j])}) - 1

\* a second delay follows the per-byte one of the byte written by DataLog[k]
RowDelayFollows(k) ==
    /\ k + 2 <= Len(DataLog)
    /\ DataLog[k + 2] = D(dot_print_time + dot_feed_time)

C9_RowDelayAfterLastByteOfRow ==
    op = "print_bitmap" =>
        \A k \in 1..Len(DataLog) :
            IsWrite(DataLog[k]) =>
                (RowDelayFollows(k) <=> (DataIndex(k) + 1) % BytesPerRow = 0)

(***************************************************************************)
(* C10: print_bitmap of a W x H image sends the header GS 'v' 0 mode       *)
(* bytesPerRow 0 (H mod 256) 0 with bytesPerRow = ceil(W / 8), then        *)
(* bytesPerRow * H data bytes; bit k (from the most significant) of the    *)
(* j-th byte of row r is 1 exactly when column 8j + k exists and its       *)
(* colour is below 0x0000FFFF, so the bits past the last column are 0; a   *)
(* 10x1 all-black image gives 0xFF 0xC0.                                   *)
(***************************************************************************)
\* the colour of the pixel at column x of row r, both from 0
Pixel(r, x) == image.pixels[r * image.width + x + 1]

Ink(r, x) == IF x < image.width /\ Pixel(r, x) < 65535 THEN 1 ELSE 0

PackedByte(r, j) ==
    128 * Ink(r, 8 * j) + 64 * Ink(r, 8 * j + 1) + 32 * Ink(r, 8 * j + 2)
    + 16 * Ink(r, 8 * j + 3) + 8 * Ink(r, 8 * j + 4) + 4 * Ink(r, 8 * j + 5)
    + 2 * Ink(r, 8 * j + 6) + Ink(r, 8 * j + 7)

C10_BitmapFrame ==
    op = "print_bitmap" =>
        LET bytes == Written(trace)
            bpr == CeilDiv(image.width, 8)
        IN  /\ Len(bytes) = 8 + bpr * image.height
            /\ SubSeq(bytes, 1, 8) =
                  <<29, 118, 0, arg, bpr, 0, image.height % 256, 0>>
            /\ \A r \in 0..(image.height - 1), j \in 0..(bpr - 1) :
                  bytes[8 + r * bpr + j + 1] = PackedByte(r, j)
            /\ (image = BlackImage) => SubSeq(bytes, 9, 10) = <<255, 192>>

C10_Witness ==
    /\ op = "print_bitmap"
    /\ image.width = 10 /\ image.height = 2
    /\ image.pixels[1] = 65535 /\ image.pixels[2] = 65534
    /\ Len(Written(trace)) = 12


(***************************************************************************)
(* C11: print_barcode blocks once, after all its bytes, for                *)
(* barcode_height * (dot_print_time + dot_feed_time), where barcode_height *)
(* is the configured height: a print_barcode right after                   *)
(* set_barcode_height(h) computes its delay from h. The code never stores  *)
(* h: set_barcode_height only sends the frame and the field stays 162.     *)
(***************************************************************************)
C11_BarcodeDelayFromConfiguredHeight ==
    [][(op = "set_barcode_height" /\ op' = "print_barcode")
        => /\ Len(trace') = 2 * Len(Written(trace')) + 1
           /\ trace'[Len(trace')] =
                  D(barcode_height * (dot_print_time + dot_feed_time))
           /\ barcode_height = arg]_vars

(***************************************************************************)
(* C12: reset hands the transport, in this order and with nothing between: *)
(* ESC '@'; the tab-stop frame ESC 'D' 4 8 ... 0; ESC 0x37 11 120 20;      *)
(* ESC 'R' 0; ESC 't' 0; GS 0x68 barcode_height.                           *)
(***************************************************************************)
\* the stops 4, 8, ... below the last multiple of 4 within max_column
TabStopsOf(mc) == [i \in 1..((mc \div 4) - 1) |-> 4 * i]

TabFrameOf(mc) == <<27, 68>> \o TabStopsOf(mc) \o <<0>>

C12_ResetFrames ==
    op = "reset" =>
        Written(trace) =
            <<27, 64>> \o TabFrameOf(max_column) \o <<27, 55, 11, 120, 20>>
            \o <<27, 82, 0>> \o <<27, 116, 0>> \o <<29, 104, barcode_height>>

C12_Witness ==
    /\ op = "reset"
    /\ max_column = 21
    /\ Len(Written(trace)) = 23
    /\ Written(trace)[23] = 162

(***************************************************************************)
(* C13: when the transport fails a write, the call stops there: no later   *)
(* byte of this or a later command of the call is handed to the transport, *)
(* and the call does not complete (it unwinds).                            *)
(***************************************************************************)
IsFailedWrite(e) == e[1] = "write_err"

C13_FailedWriteAborts ==
    \A i \in 1..Len(trace) :
        IsFailedWrite(trace[i])
            => /\ panicked
               /\ \A j \in (i + 1)..Len(trace) : IsDelay(trace[j])

C13_Witness ==
    /\ op = "reset"
    /\ panicked
    /\ Len(trace) = 6
    /\ trace[5] = WErr(27)

C15_BitmapLeavesCursor ==
    [][op' = "print_bitmap"
        => UNCHANGED <<current_column, prev_byte, char_width, char_height,
                       max_column>>]_vars

C15_Witness ==
    /\ op = "print_bitmap"
    /\ current_column = 3 /\ prev_byte = 65
    /\ max_column = 21
    /\ Len(Written(trace)) = 10


(***************************************************************************)
(* C16: a forced wrap is a line break: in a state with current_column =    *)
(* max_column, writing any byte waits as long, and leaves the same cursor  *)
(* (column 0, previous byte marked as a line break), as writing the        *)
(* line-break byte in that state.                                          *)
(***************************************************************************)
C16_ForcedWrapIsLineBreak ==
    [][(op' = "write_char" /\ current_column = max_column)
        => /\ current_column' = 0
           /\ prev_byte' = LF
           /\ ~panicked'
           /\ trace'[1] = W(arg')
           /\ \E q \in write_one(St, LF) :
                 /\ q.current_column = current_column'
                 /\ q.prev_byte = prev_byte'
                 /\ q.trace[2] = trace'[2]]_vars

C16_Witness ==
    /\ op = "write_char" /\ arg = 65
    /\ current_column = 0 /\ prev_byte = LF
    /\ dot_print_time = 2 /\ dot_feed_time = 1
    /\ trace = <<W(65), D(573 + char_height * 2 + line_spacing)>>

(***************************************************************************)
(* C17: dot_print_time and dot_feed_time are 0 in every reachable state,   *)
(* so every wait that follows a byte is exactly the per-byte time and      *)
(* every other wait (row, barcode, feed) is 0.                             *)
(***************************************************************************)
C17_DotTimesAreZero ==
    /\ dot_print_time = 0
    /\ dot_feed_time = 0
    /\ \A i \in 1..Len(trace) :
          IsDelay(trace[i])
              => trace[i][2] =
                    IF i > 1 /\ IsWrite(trace[i - 1]) THEN 573 ELSE 0

C17_Witness ==
    /\ op = "print_barcode"
    /\ Len(trace) = 11
    /\ trace[11] = D(0)
    /\ trace[10] = D(573)

(***************************************************************************)
(* C18: the barcode frame is self-consistent: print_barcode sends GS 'k'   *)
(* system length and then one byte per character of the text, and the      *)
(* length byte is the number of bytes that follow it. The code sends       *)
(* the text's length in UTF-8 bytes but one byte per character.            *)
(***************************************************************************)
C18_BarcodeFrameConsistent ==
    op = "print_barcode" =>
        LET bytes == Written(trace)
        IN  /\ Len(bytes) = 4 + Len(arg.text)
            /\ SubSeq(bytes, 1, 3) = <<29, 107, arg.system>>
            /\ bytes[4] = Len(bytes) - 4
            /\ \A i \in 1..Len(arg.text) : bytes[4 + i] = arg.text[i] % 256

(***************************************************************************)
(* C19: the 8-bit current_column never overflows: in every reachable state *)
(* no call has panicked and the additions write_one would make for any     *)
(* byte stay within 0..255. Above max_column the code never wraps the line *)
(* again, so the column climbs until an addition passes 255.               *)
(***************************************************************************)
C19_ColumnAdditionsFit ==
    /\ ~panicked
    /\ \A b \in {HT, 65} :
          current_column # max_column
              => current_column
                   + (IF b = HT THEN (current_column \div 4) + 1 ELSE 0)
                   + 1 <= 255

(***************************************************************************)
(* C20: reset changes nothing of the session's cursor: current_column, the *)
(* previous byte, char_width, char_height, max_column and barcode_height   *)
(* are as before it, and the tab stops it sends are those of the current   *)
(* max_column (that of the last set_print_mode), not of the default.       *)
(***************************************************************************)
C20_ResetKeepsCursor ==
    [][op' = "reset"
        => /\ UNCHANGED <<current_column, prev_byte, char_width, char_height,
                          max_column, barcode_height>>
           /\ SubSeq(Written(trace'), 3, 2 + Len(TabFrameOf(max_column)))
                 = TabFrameOf(max_column)]_vars

C20_Witness ==
    /\ op = "reset"
    /\ current_column = 5 /\ prev_byte = 65
    /\ max_column = 16 /\ char_height = 48
    /\ SubSeq(Written(trace), 3, 8) = <<27, 68, 4, 8, 12, 0>>


(***************************************************************************)
(* C21: feed_n(n) sends exactly ESC 'J' n, each byte followed by its       *)
(* transmission wait, then waits once for dot_feed_time * char_height,     *)
(* whatever n is, and leaves the cursor as after a line break              *)
(* (current_column = 0, previous byte the line-break byte); a line break   *)
(* written right after it waits the time of an empty-line feed,            *)
(* (char_height + line_spacing) * dot_feed_time on top of the byte time.   *)
(***************************************************************************)
C21_FeedActsAsLineBreak ==
    [][/\ op' = "feed_n"
            => /\ trace' = <<W(27), D(573), W(74), D(573), W(arg'), D(573),
                             D(dot_feed_time * char_height)>>
               /\ current_column' = 0
               /\ prev_byte' = LF
               /\ UNCHANGED <<char_height, line_spacing, dot_feed_time,
                              dot_print_time, max_column>>
       /\ (op = "feed_n" /\ op' = "write_char" /\ arg' = LF)
            => /\ trace' = <<W(LF),
                             D(573 + (char_height + line_spacing)
                                        * dot_feed_time)>>
               /\ current_column' = 0
               /\ prev_byte' = LF]_vars

C21_Witness ==
    /\ op = "feed_n" /\ arg = 1
    /\ dot_feed_time = 2 /\ dot_print_time = 1 /\ char_height = 48
    /\ current_column = 0 /\ prev_byte = LF
    /\ trace = <<W(27), D(573), W(74), D(573), W(1), D(573), D(96)>>


====
